---- MODULE Spec2Model ----
(***************************************************************************)
(* Spot robot control: the command bridge shared by the simulation loop    *)
(* and the command producers (src/src/bridge.py), the tools and endpoints  *)
(* that write to it (src/src/mcp_server.py, src/src/http_server.py), the   *)
(* physics callback that reads it (src/src/simulation.py) and the vision   *)
(* navigation loop that drives the tools (src/agent.py).                   *)
(*                                                                         *)
(* Units: wall-clock time and durations are whole seconds; velocities and  *)
(* yaw rates are tenths (1.0 m/s = 10, 0.8 rad/s = 8, 0.5 m/s = 5), so     *)
(* distance_moved (duration_s * speed) is in tenths of a metre.  Strings   *)
(* are TLA+ strings, taken apart with Len and SubSeq.                      *)
(***************************************************************************)
EXTENDS Integers, Sequences, FiniteSets, TLC

VARIABLES
    clock,                    \* time.time()
    lock,                     \* SimBridge._lock: "free" or the thread holding it
    base_command,             \* SimBridge._base_command
    command_until_walltime,   \* SimBridge._command_until_walltime
    pc,                       \* position of each thread
    local,                    \* set_base_command's vx/vy/yaw_rate, duration_s, until per producer
    reply,                    \* what a producer's handler returns to its caller
    now,                      \* get_base_command's local `now` in the simulation thread
    cmd,                      \* (vx, vy, wz) unpacked in on_physics_step
    first_step,               \* SpotSimulation.first_step
    reset_needed,             \* SpotSimulation.reset_needed
    lastWrite,                \* history: the write that acquired the lock last
    get_after_write,          \* history: no write took the lock since the running get sampled
    last_state,               \* SimBridge._last_state
    camera_rgba,              \* SimBridge._camera_rgba
    direction,                \* direction_to_command's arguments ...
    dir_speed,
    dir_yaw_rate,
    dir_result,               \* ... and what the call gave
    agent,                    \* position of navigate_robot
    step,                     \* navigate_robot's step
    distance_moved,           \* navigate_robot's distance_moved
    consecutive_stops,        \* navigate_robot's consecutive_stops
    vision_analysis,          \* navigate_robot's vision_analysis
    decided,                  \* navigate_robot's movement_command, speed and duration
    step_before,              \* history: step when the running iteration began
    issued,                   \* history: the commands issued for the running series of
                              \* BLOCKED decisions
    image_data,               \* navigate_robot's image_data: the frame getCameraImage gave
    image_base64,             \* queryVisionModel's image_base64: the frame it posted
    writes,                   \* history: command calls the running iteration has made
    failed_in_series,         \* history: an attempt failed during the running series of
                              \* BLOCKED decisions
    heap,                     \* the nested dicts of the snapshots, by object identity
    returned,                 \* the dict a caller of get_state holds
    last_set,                 \* history: the argument of the latest set_camera_rgba
    forwarded                 \* history: the command of the latest spot.forward

bridgeVars == <<clock, lock, base_command, command_until_walltime, pc, local, reply,
                now, cmd, first_step, reset_needed, lastWrite, get_after_write>>
pubVars == <<last_state, camera_rgba>>
dirVars == <<direction, dir_speed, dir_yaw_rate, dir_result>>
navVars == <<agent, step, distance_moved, consecutive_stops, vision_analysis, decided,
             step_before, issued, image_data, image_base64, writes, failed_in_series>>
auxVars == <<heap, returned, last_set, forwarded>>
vars == <<bridgeVars, pubVars, dirVars, navVars, auxVars>>

----------------------------------------------------------------------------
(* Bounds of the model.                                                    *)

\* the wall clock runs from 1 to MaxTime
MaxTime == 3
\* durations a producer may ask for run from -1 to MaxDuration
MaxDuration == 1
\* the simulation publishes up to MaxSnapshots snapshots by reference
MaxSnapshots == 2
\* the camera yields MaxFrames different frames
MaxFrames == 2
\* the navigation loop is run with a limit of MaxSteps steps
MaxSteps == 6

----------------------------------------------------------------------------
(* Strings: str.lower and str.strip.                                       *)

UpperChars == "ABCDEFGHIJKLMNOPQRSTUVWXYZ"
LowerChars == "abcdefghijklmnopqrstuvwxyz"
Whitespace == {" ", "\t", "\n", "\r"}

CharAt(s, i) == SubSeq(s, i, i)

LowerChar(c) ==
    IF \E i \in 1..Len(UpperChars) : CharAt(UpperChars, i) = c
    THEN CharAt(LowerChars, CHOOSE i \in 1..Len(UpperChars) : CharAt(UpperChars, i) = c)
    ELSE c

UpperChar(c) ==
    IF \E i \in 1..Len(LowerChars) : CharAt(LowerChars, i) = c
    THEN CharAt(UpperChars, CHOOSE i \in 1..Len(LowerChars) : CharAt(LowerChars, i) = c)
    ELSE c

RECURSIVE lower(_)
lower(s) == IF Len(s) = 0 THEN "" ELSE LowerChar(CharAt(s, 1)) \o lower(SubSeq(s, 2, Len(s)))

RECURSIVE upper(_)
upper(s) == IF Len(s) = 0 THEN "" ELSE UpperChar(CharAt(s, 1)) \o upper(SubSeq(s, 2, Len(s)))

RECURSIVE lstrip(_)
lstrip(s) ==
    IF Len(s) > 0 /\ CharAt(s, 1) \in Whitespace THEN lstrip(SubSeq(s, 2, Len(s))) ELSE s

RECURSIVE rstrip(_)
rstrip(s) ==
    IF Len(s) > 0 /\ CharAt(s, Len(s)) \in Whitespace THEN rstrip(SubSeq(s, 1, Len(s) - 1)) ELSE s

strip(s) == rstrip(lstrip(s))

----------------------------------------------------------------------------
(* direction_to_command (src/src/bridge.py).                                *)

ZeroCmd == <<0, 0, 0>>

\* a call that returned `value`, and a call that raised ValueError
Returned(value) == [ok |-> TRUE, value |-> value]
ValueError == [ok |-> FALSE, value |-> <<>>]
\* no call made yet
NoCall == [ok |-> FALSE, value |-> <<-1>>]

\* the right/strafe_right row with the sign of vy lost
direction_to_command_sign_slip(dir, speed, yaw_rate) ==
    LET d == lower(strip(dir)) IN
    IF d \in {"forward", "fwd", "front"} THEN Returned(<<speed, 0, 0>>)
    ELSE IF d \in {"back", "backward", "reverse"} THEN Returned(<<-speed, 0, 0>>)
    ELSE IF d \in {"left", "strafe_left"} THEN Returned(<<0, speed, 0>>)
    ELSE IF d \in {"right", "strafe_right"} THEN Returned(<<0, speed, 0>>)
    ELSE IF d \in {"turn_left", "yaw_left", "rotate_left"} THEN Returned(<<0, 0, yaw_rate>>)
    ELSE IF d \in {"turn_right", "yaw_right", "rotate_right"} THEN Returned(<<0, 0, -yaw_rate>>)
    ELSE IF d \in {"stop", "halt"} THEN Returned(ZeroCmd)
    ELSE ValueError

direction_to_command(dir, speed, yaw_rate) ==
    LET d == lower(strip(dir)) IN
    IF d \in {"forward", "fwd", "front"} THEN Returned(<<speed, 0, 0>>)
    ELSE IF d \in {"back", "backward", "reverse"} THEN Returned(<<-speed, 0, 0>>)
    ELSE IF d \in {"left", "strafe_left"} THEN Returned(<<0, speed, 0>>)
    ELSE IF d \in {"right", "strafe_right"} THEN Returned(<<0, -speed, 0>>)
    ELSE IF d \in {"turn_left", "yaw_left", "rotate_left"} THEN Returned(<<0, 0, yaw_rate>>)
    ELSE IF d \in {"turn_right", "yaw_right", "rotate_right"} THEN Returned(<<0, 0, -yaw_rate>>)
    ELSE IF d \in {"stop", "halt"} THEN Returned(ZeroCmd)
    ELSE ValueError

\* the direction strings, speeds and yaw rates the callers pass: every synonym
\* and some strings outside the table, in three spellings and four paddings
Synonyms == {"forward", "fwd", "front", "back", "backward", "reverse", "left",
             "strafe_left", "right", "strafe_right", "turn_left", "yaw_left",
             "rotate_left", "turn_right", "yaw_right", "rotate_right", "stop", "halt"}
OtherWords == {"", "diagonal", "up", "forwards", "turn left", "turnleft", "strafe",
               "sto p"}
capitalize(w) == IF Len(w) = 0 THEN w ELSE upper(CharAt(w, 1)) \o SubSeq(w, 2, Len(w))
Spellings(w) == {w, upper(w), capitalize(w)}
Paddings == {<<"", "">>, <<" ", "">>, <<"", " ">>, <<"\t", " \n">>}
Directions ==
    UNION {{pad[1] \o c \o pad[2] : pad \in Paddings, c \in Spellings(w)} :
              w \in Synonyms \cup OtherWords}
Speeds == {5, 10}
YawRates == {8}

\* direction_to_command over those arguments, tabulated once (@@ makes the
\* function an explicit table instead of an expression evaluated at each use)
Translation ==
    [a \in Directions \X Speeds \X YawRates |-> direction_to_command(a[1], a[2], a[3])]
    @@ <<>>
translate(dir, speed, yaw_rate) == Translation[<<dir, speed, yaw_rate>>]

----------------------------------------------------------------------------
(* SimBridge: the velocity command and its window (src/src/bridge.py).      *)

\* the threads of main.py: the FastMCP server thread, a debug HTTP handler
\* thread, and the main thread running SpotSimulation.run
Producers == {"mcp", "http"}
Threads == Producers \cup {"sim"}

NoLocal == [handler |-> "none", dir |-> "", vec |-> ZeroCmd, duration_s |-> 0, t |-> 0,
            until |-> 0]
NoReply == [kind |-> "none", ok |-> FALSE, applied |-> <<>>, duration_s |-> 0,
            handler |-> "none", dir |-> ""]

\* duration_s = max(0.0, float(duration_s)), with the clamp left out
clamp_missing(duration_s) == duration_s

\* duration_s = min(0.0, float(duration_s))
clamp_with_min(duration_s) == IF duration_s < 0 THEN duration_s ELSE 0

\* duration_s = max(0.0, float(duration_s))
clamp(duration_s) == IF duration_s > 0 THEN duration_s ELSE 0

\* a window that never closes
expired_never(now_, until) == FALSE

\* if now > self._command_until_walltime
expired(now_, until) == now_ > until

\* with self._lock: entered without waiting for the holder
lock_ignored == TRUE

\* with self._lock: the lock can be taken
lock_available == lock = "free"

\* self._base_command = (float(vx), float(vy), float(yaw_rate))
stored_command(old, new) == new

\* what get_base_command returns for a caller that sampled `now_`
get_base_command(now_) ==
    IF expired(now_, command_until_walltime) THEN ZeroCmd ELSE base_command

\* set_base_command up to the lock: clamp the duration, sample the clock
\* (handler and dir record the request that made the call)
set_base_command_begin(p, handler, dir, vec, duration_s) ==
    /\ pc[p] = "idle"
    /\ local' = [local EXCEPT ![p] = [handler |-> handler, dir |-> dir, vec |-> vec,
                                      duration_s |-> duration_s, t |-> clock,
                                      until |-> clock + clamp(duration_s)]]
    /\ pc' = [pc EXCEPT ![p] = "sampled"]
    /\ UNCHANGED <<clock, lock, base_command, command_until_walltime, reply, now, cmd,
                   first_step, reset_needed, lastWrite, get_after_write>>

\* with self._lock: self._base_command = ...
set_base_command_lock(p) ==
    /\ pc[p] = "sampled"
    /\ lock_available
    /\ lock' = p
    /\ base_command' = stored_command(base_command, local[p].vec)
    /\ lastWrite' = [t |-> local[p].t, duration_s |-> local[p].duration_s,
                     vec |-> local[p].vec, handler |-> local[p].handler,
                     stops |-> IF local[p].handler \in {"stop", "/stop"}
                               THEN IF lastWrite.stops = 0 THEN 1 ELSE 2
                               ELSE 0]
    /\ get_after_write' = FALSE
    /\ pc' = [pc EXCEPT ![p] = "locked"]
    /\ UNCHANGED <<clock, command_until_walltime, local, reply, now, cmd,
                   first_step, reset_needed>>

\* the reply of the handler that called set_base_command
handler_reply(l) ==
    IF l.handler \in {"giveMoveCommand", "/move"}
    THEN [kind |-> "applied", ok |-> TRUE, applied |-> l.vec, duration_s |-> l.duration_s,
          handler |-> l.handler, dir |-> l.dir]
    ELSE [kind |-> "ok", ok |-> TRUE, applied |-> <<>>, duration_s |-> 0,
          handler |-> l.handler, dir |-> l.dir]

\* self._command_until_walltime = until; the lock is released and the handler returns
set_base_command_unlock(p) ==
    /\ pc[p] = "locked"
    /\ command_until_walltime' = local[p].until
    /\ lock' = "free"
    /\ reply' = [reply EXCEPT ![p] = handler_reply(local[p])]
    /\ local' = [local EXCEPT ![p] = NoLocal]
    /\ pc' = [pc EXCEPT ![p] = "replied"]
    /\ UNCHANGED <<clock, base_command, now, cmd, first_step, reset_needed,
                   lastWrite, get_after_write>>

\* a direction that direction_to_command rejects: the handler fails before it
\* reaches set_base_command
move_rejected(p, handler, dir) ==
    /\ pc[p] = "idle"
    /\ reply' = [reply EXCEPT ![p] =
                    [kind |-> "error", ok |-> FALSE, applied |-> <<>>, duration_s |-> 0,
                     handler |-> handler, dir |-> dir]]
    /\ pc' = [pc EXCEPT ![p] = "replied"]
    /\ UNCHANGED <<clock, lock, base_command, command_until_walltime, local, now, cmd,
                   first_step, reset_needed, lastWrite, get_after_write>>

\* a handler that takes a direction it does not know for a stop
move_unknown_stops(p, handler, dir, length, speed, yaw_rate) ==
    LET r == translate(dir, speed, yaw_rate) IN
    IF r.ok THEN set_base_command_begin(p, handler, dir, r.value, length)
    ELSE set_base_command_begin(p, handler, dir, ZeroCmd, 0)

\* giveMoveCommand (MCP tool) and GET /move (debug HTTP server)
move(p, handler, dir, length, speed, yaw_rate) ==
    LET r == translate(dir, speed, yaw_rate) IN
    IF r.ok THEN set_base_command_begin(p, handler, dir, r.value, length)
    ELSE move_rejected(p, handler, dir)

giveMoveCommand(dir, length, speed, yaw_rate) ==
    move("mcp", "giveMoveCommand", dir, length, speed, yaw_rate)

http_move(dir, length, speed, yaw_rate) ==
    move("http", "/move", dir, length, speed, yaw_rate)

\* setBaseCommand (MCP tool)
setBaseCommand(vec, duration) ==
    set_base_command_begin("mcp", "setBaseCommand", "", vec, duration)

\* a stop that closes the window and keeps the stored vector
stop_keeps_vector == set_base_command_begin("mcp", "stop", "", base_command, 0)

\* stop (MCP tool) and GET /stop
stop == set_base_command_begin("mcp", "stop", "", ZeroCmd, 0)

http_stop == set_base_command_begin("http", "/stop", "", ZeroCmd, 0)

\* the reply reaches the caller; the thread takes the next request
handler_return(p) ==
    /\ pc[p] = "replied"
    /\ reply' = [reply EXCEPT ![p] = NoReply]
    /\ pc' = [pc EXCEPT ![p] = "idle"]
    /\ UNCHANGED <<clock, lock, base_command, command_until_walltime, local, now, cmd,
                   first_step, reset_needed, lastWrite, get_after_write>>

----------------------------------------------------------------------------
(* SpotSimulation.on_physics_step and the stop check of run                 *)
(* (src/src/simulation.py).                                                 *)

\* first tick: spot.initialize(), camera.initialize()
physics_initialize ==
    /\ pc["sim"] = "idle"
    /\ first_step
    /\ first_step' = FALSE
    /\ UNCHANGED <<clock, lock, base_command, command_until_walltime, pc, local, reply,
                   now, cmd, reset_needed, lastWrite, get_after_write>>

\* a reset that leaves the robot initialized
physics_reset_stays_running ==
    /\ pc["sim"] = "idle"
    /\ ~first_step
    /\ reset_needed
    /\ reset_needed' = FALSE
    /\ UNCHANGED <<clock, lock, base_command, command_until_walltime, pc, local, reply,
                   now, cmd, first_step, lastWrite, get_after_write>>

\* a tick with a reset requested: world.reset(True)
physics_reset ==
    /\ pc["sim"] = "idle"
    /\ ~first_step
    /\ reset_needed
    /\ reset_needed' = FALSE
    /\ first_step' = TRUE
    /\ UNCHANGED <<clock, lock, base_command, command_until_walltime, pc, local, reply,
                   now, cmd, lastWrite, get_after_write>>

\* a running tick enters get_base_command: now = time.time()
physics_sample ==
    /\ pc["sim"] = "idle"
    /\ ~first_step
    /\ ~reset_needed
    /\ now' = clock
    /\ get_after_write' = (lock = "free")
    /\ pc' = [pc EXCEPT !["sim"] = "sampled"]
    /\ UNCHANGED <<clock, lock, base_command, command_until_walltime, local, reply, cmd,
                   first_step, reset_needed, lastWrite>>

\* a callback that adds the command it reads to the one it applied last
physics_get_base_command_adds ==
    /\ pc["sim"] = "sampled"
    /\ lock_available
    /\ cmd' = IF forwarded = <<0>> THEN get_base_command(now)
              ELSE <<get_base_command(now)[1] + forwarded[1],
                     get_base_command(now)[2] + forwarded[2],
                     get_base_command(now)[3] + forwarded[3]>>
    /\ get_after_write' = FALSE
    /\ pc' = [pc EXCEPT !["sim"] = "apply"]
    /\ UNCHANGED <<clock, lock, base_command, command_until_walltime, local, reply, now,
                   first_step, reset_needed, lastWrite>>

\* with self._lock: compare and return
physics_get_base_command ==
    /\ pc["sim"] = "sampled"
    /\ lock_available
    /\ cmd' = get_base_command(now)
    /\ get_after_write' = FALSE
    /\ pc' = [pc EXCEPT !["sim"] = "apply"]
    /\ UNCHANGED <<clock, lock, base_command, command_until_walltime, local, reply, now,
                   first_step, reset_needed, lastWrite>>

\* self.spot.forward(step_size, cmd)
physics_forward ==
    /\ pc["sim"] = "apply"
    /\ cmd' = ZeroCmd
    /\ now' = 0
    /\ pc' = [pc EXCEPT !["sim"] = "idle"]
    /\ UNCHANGED <<clock, lock, base_command, command_until_walltime, local, reply,
                   first_step, reset_needed, lastWrite, get_after_write>>

\* run: if self.world.is_stopped(): self.reset_needed = True
world_stopped ==
    /\ pc["sim"] = "idle"
    /\ ~reset_needed
    /\ reset_needed' = TRUE
    /\ UNCHANGED <<clock, lock, base_command, command_until_walltime, pc, local, reply,
                   now, cmd, first_step, lastWrite, get_after_write>>

\* the wall clock advances
tick ==
    /\ clock < MaxTime
    /\ clock' = clock + 1
    /\ UNCHANGED <<lock, base_command, command_until_walltime, pc, local, reply, now, cmd,
                   first_step, reset_needed, lastWrite, get_after_write>>

----------------------------------------------------------------------------
(* SpotSimulation.run after world.step: the camera frame and the state      *)
(* snapshot are published to the bridge (src/src/simulation.py).            *)

\* the frames camera.get_rgba can return are <<1>> .. <<MaxFrames>>
Frames == {<<f>> : f \in 1..MaxFrames}
None == <<>>

EmptyDict == [k \in {} |-> 0]

\* _safe_get_spot_pose: the pose, or {} when the read raises
SpotPose == [position |-> <<0, 0, 8>>, orientation_yaw_rad |-> 0]
SpotPoses == {SpotPose, EmptyDict}

\* _safe_get_camera_summary: resolution only (no frame, or an empty one), the
\* mean of the frame read, or has_frame False when the read raises
CameraSummaries ==
    {[resolution |-> <<512, 256>>]}
    \cup {[resolution |-> <<512, 256>>, rgba_mean |-> f, has_frame |-> TRUE] : f \in Frames}
    \cup {[resolution |-> <<512, 256>>, has_frame |-> FALSE]}

\* if self.world.is_playing(): vx, vy, wz = self.bridge.get_base_command() -- now = time.time()
run_sample ==
    /\ pc["sim"] = "idle"
    /\ now' = clock
    /\ pc' = [pc EXCEPT !["sim"] = "run_sampled"]
    /\ UNCHANGED <<clock, lock, base_command, command_until_walltime, local, reply, cmd,
                   first_step, reset_needed, lastWrite, get_after_write, pubVars>>

\* get_base_command: with self._lock, compare and return
run_get_base_command ==
    /\ pc["sim"] = "run_sampled"
    /\ lock_available
    /\ cmd' = get_base_command(now)
    /\ pc' = [pc EXCEPT !["sim"] = "run_camera"]
    /\ UNCHANGED <<clock, lock, base_command, command_until_walltime, local, reply, now,
                   first_step, reset_needed, lastWrite, get_after_write, pubVars>>

\* set_camera_rgba that keeps the stored frame when it is given None
run_set_camera_rgba_keeps_frame(rgba) ==
    /\ pc["sim"] = "run_camera"
    /\ lock_available
    /\ camera_rgba' = IF rgba = None THEN camera_rgba ELSE rgba
    /\ pc' = [pc EXCEPT !["sim"] = "run_state"]
    /\ UNCHANGED <<clock, lock, base_command, command_until_walltime, local, reply, now,
                   cmd, first_step, reset_needed, lastWrite, get_after_write, last_state>>

\* camera_rgba = self.camera.get_rgba(); self.bridge.set_camera_rgba(camera_rgba)
run_set_camera_rgba(rgba) ==
    /\ pc["sim"] = "run_camera"
    /\ lock_available
    /\ camera_rgba' = rgba
    /\ pc' = [pc EXCEPT !["sim"] = "run_state"]
    /\ UNCHANGED <<clock, lock, base_command, command_until_walltime, local, reply, now,
                   cmd, first_step, reset_needed, lastWrite, get_after_write, last_state>>

\* a failed frame read that empties the slot
run_camera_raises_clears_frame ==
    /\ pc["sim"] = "run_camera"
    /\ lock_available
    /\ camera_rgba' = None
    /\ pc' = [pc EXCEPT !["sim"] = "run_state"]
    /\ UNCHANGED <<clock, lock, base_command, command_until_walltime, local, reply, now,
                   cmd, first_step, reset_needed, lastWrite, get_after_write, last_state>>

\* camera.get_rgba raises: except Exception: pass
run_camera_raises ==
    /\ pc["sim"] = "run_camera"
    /\ pc' = [pc EXCEPT !["sim"] = "run_state"]
    /\ UNCHANGED <<clock, lock, base_command, command_until_walltime, local, reply, now,
                   cmd, first_step, reset_needed, lastWrite, get_after_write, pubVars>>

\* self.bridge.update_state({...}): with self._lock: self._last_state = dict(state)
run_update_state(spot, camera) ==
    /\ pc["sim"] = "run_state"
    /\ lock_available
    /\ last_state' = [timestamp |-> clock, spot |-> spot,
                      base_command |-> [vx |-> cmd[1], vy |-> cmd[2], yaw_rate |-> cmd[3]],
                      camera |-> camera]
    /\ cmd' = ZeroCmd
    /\ now' = 0
    /\ pc' = [pc EXCEPT !["sim"] = "idle"]
    /\ UNCHANGED <<clock, lock, base_command, command_until_walltime, local, reply,
                   first_step, reset_needed, lastWrite, get_after_write, camera_rgba>>

InitPub ==
    /\ last_state = EmptyDict
    /\ camera_rgba = None

\* no object allocated, no snapshot handed out, no frame set, nothing forwarded
Never == <<0>>
InitAux ==
    /\ heap = <<>>
    /\ returned = EmptyDict
    /\ last_set = Never
    /\ forwarded = Never

----------------------------------------------------------------------------
(* navigate_robot (src/agent.py) and the tools it reads with                *)
(* (src/src/mcp_server.py).                                                 *)

\* max_steps = 100: the loop runs here with the limit MaxSteps
max_steps == MaxSteps

\* `sub in s`
Contains(s, sub) ==
    \E i \in 1..(Len(s) - Len(sub) + 1) : SubSeq(s, i, i + Len(sub) - 1) = sub

\* s.split('\n')[0]
RECURSIVE first_line(_)
first_line(s) ==
    IF Len(s) = 0 \/ CharAt(s, 1) = "\n" THEN ""
    ELSE CharAt(s, 1) \o first_line(SubSeq(s, 2, Len(s)))

\* the whole analysis searched instead of its first line
primary_command_whole(analysis) == upper(analysis)

\* primary_command = vision_analysis.upper().split('\n')[0]
primary_command(analysis) == first_line(upper(analysis))

\* what the vision model may answer
ModelResponses ==
    {"FORWARD: clear path", "go forward", "SLOW, then FORWARD", "Slow", "OBSTACLE_LEFT",
     "obstacle_right\nFORWARD", "BLOCKED: wall", " blocked\n", "unsure\nBLOCKED", " \n",
     "unsure\nFORWARD", "OBSTACLE_RIGHT or OBSTACLE_LEFT", "blocked, go SLOW"}

\* the HTTP round trip to the vision model: status 200 with a response text,
\* another status, or an exception (connection refused, timeout)
VisionResults ==
    {[status |-> 200, response |-> r] : r \in ModelResponses}
    \cup {[status |-> 500, response |-> ""], [status |-> 0, response |-> ""]}

\* result.get("response", "").strip()
Stripped == [r \in ModelResponses |-> strip(r)] @@ <<>>

\* getCameraImage: ok False without a frame or when the encoding raises
getCameraImage(encoded) ==
    IF camera_rgba = None THEN [ok |-> FALSE]
    ELSE IF encoded THEN [ok |-> TRUE]
    ELSE [ok |-> FALSE]

\* queryVisionModel: ok False without a frame, on another status than 200 and
\* on an exception
queryVisionModel(result) ==
    IF camera_rgba = None THEN [ok |-> FALSE, response |-> ""]
    ELSE IF result.status = 200 THEN [ok |-> TRUE, response |-> Stripped[result.response]]
    ELSE [ok |-> FALSE, response |-> ""]

\* the BLOCKED branch with thresholds one attempt late
blocked_command_late(stops) ==
    IF stops <= 3 THEN "turn_left"
    ELSE IF stops <= 5 THEN "turn_right"
    ELSE ""

\* the BLOCKED branch giving up one attempt early
blocked_command_early(stops) ==
    IF stops <= 2 THEN "turn_left"
    ELSE IF stops <= 3 THEN "turn_right"
    ELSE ""

\* the BLOCKED branch: the command for the attempt, "" when the loop gives up
\* (movement_command stays None)
blocked_command(stops) ==
    IF stops <= 2 THEN "turn_left"
    ELSE IF stops <= 4 THEN "turn_right"
    ELSE ""

NoDecision == [movement_command |-> "", speed |-> 5, duration |-> 1]

\* the chain with a fallback branch that leaves consecutive_stops alone
decision_fallback_keeps_count(primary, stops) ==
    IF Contains(primary, "FORWARD")
    THEN [movement_command |-> "forward", speed |-> 10, duration |-> 2,
          consecutive_stops |-> 0]
    ELSE IF Contains(primary, "SLOW")
    THEN [movement_command |-> "forward", speed |-> 10, duration |-> 1,
          consecutive_stops |-> 0]
    ELSE IF Contains(primary, "OBSTACLE_LEFT")
    THEN [movement_command |-> "left", speed |-> 10, duration |-> 1,
          consecutive_stops |-> 0]
    ELSE IF Contains(primary, "OBSTACLE_RIGHT")
    THEN [movement_command |-> "right", speed |-> 10, duration |-> 1,
          consecutive_stops |-> 0]
    ELSE IF Contains(primary, "BLOCKED")
    THEN IF blocked_command(stops + 1) # ""
         THEN [movement_command |-> blocked_command(stops + 1), speed |-> 10,
               duration |-> 1, consecutive_stops |-> stops + 1]
         ELSE [movement_command |-> "", speed |-> 5, duration |-> 1,
               consecutive_stops |-> stops + 1]
    ELSE [movement_command |-> "forward", speed |-> 10, duration |-> 1,
          consecutive_stops |-> stops]

\* the if/elif chain over primary_command
decision(primary, stops) ==
    IF Contains(primary, "FORWARD")
    THEN [movement_command |-> "forward", speed |-> 10, duration |-> 2,
          consecutive_stops |-> 0]
    ELSE IF Contains(primary, "SLOW")
    THEN [movement_command |-> "forward", speed |-> 10, duration |-> 1,
          consecutive_stops |-> 0]
    ELSE IF Contains(primary, "OBSTACLE_LEFT")
    THEN [movement_command |-> "left", speed |-> 10, duration |-> 1,
          consecutive_stops |-> 0]
    ELSE IF Contains(primary, "OBSTACLE_RIGHT")
    THEN [movement_command |-> "right", speed |-> 10, duration |-> 1,
          consecutive_stops |-> 0]
    ELSE IF Contains(primary, "BLOCKED")
    THEN IF blocked_command(stops + 1) # ""
         THEN [movement_command |-> blocked_command(stops + 1), speed |-> 10,
               duration |-> 1, consecutive_stops |-> stops + 1]
         ELSE [movement_command |-> "", speed |-> 5, duration |-> 1,
               consecutive_stops |-> stops + 1]
    ELSE [movement_command |-> "forward", speed |-> 10, duration |-> 1,
          consecutive_stops |-> 0]

\* the first lines the analyses can have
Primary == [r \in {Stripped[m] : m \in ModelResponses} |-> primary_command(r)] @@ <<>>

\* distance_moved += applied.get("duration_s", 0) * speed, without the speed
travelled_seconds(duration_s, speed_) == duration_s

\* applied.get("duration_s", 0) * speed
travelled(duration_s, speed_) == duration_s * speed_

InitAgent ==
    /\ agent = "loop"
    /\ step = 0
    /\ distance_moved = 0
    /\ consecutive_stops = 0
    /\ vision_analysis = ""
    /\ decided = NoDecision
    /\ step_before = 0
    /\ issued = <<>>
    /\ image_data = None
    /\ image_base64 = None
    /\ writes = 0
    /\ failed_in_series = FALSE

\* an attempt without an image that is retried without counting as a step
capture_retry_free(encoded, delivered) ==
    /\ agent = "loop"
    /\ step < max_steps
    /\ lock_available
    /\ step' = IF delivered /\ getCameraImage(encoded).ok THEN step + 1 ELSE step
    /\ step_before' = step
    /\ agent' = IF delivered /\ getCameraImage(encoded).ok THEN "state" ELSE "loop"
    /\ image_data' = IF ~delivered THEN image_data
                      ELSE IF getCameraImage(encoded).ok THEN camera_rgba ELSE None
    /\ writes' = 0
    /\ failed_in_series' =
          IF delivered /\ getCameraImage(encoded).ok THEN failed_in_series
          ELSE consecutive_stops > 0
    /\ UNCHANGED <<distance_moved, consecutive_stops, vision_analysis, decided, issued,
                   image_base64, bridgeVars, pubVars, dirVars, auxVars>>

\* while step < max_steps: step += 1; getCameraImage; without an image
\* sleep(1) and continue
capture(encoded, delivered) ==
    /\ agent = "loop"
    /\ step < max_steps
    /\ lock_available
    /\ step' = step + 1
    /\ step_before' = step
    /\ agent' = IF delivered /\ getCameraImage(encoded).ok THEN "state" ELSE "loop"
    /\ image_data' = IF ~delivered THEN image_data
                      ELSE IF getCameraImage(encoded).ok THEN camera_rgba ELSE None
    /\ writes' = 0
    /\ failed_in_series' =
          IF delivered /\ getCameraImage(encoded).ok THEN failed_in_series
          ELSE consecutive_stops > 0
    /\ UNCHANGED <<distance_moved, consecutive_stops, vision_analysis, decided, issued,
                   image_base64, bridgeVars, pubVars, dirVars, auxVars>>

\* a failed state read that abandons the attempt
getState_failure_continues(raises) ==
    /\ agent = "state"
    /\ raises \/ lock_available
    /\ agent' = IF raises \/ last_state = EmptyDict THEN "loop" ELSE "vision"
    /\ UNCHANGED <<step, distance_moved, consecutive_stops, vision_analysis, decided,
                   step_before, issued, image_data, image_base64, writes,
                   failed_in_series, bridgeVars, pubVars, dirVars, auxVars>>

\* getState: the pose is printed when the snapshot has one; an exception (the
\* call or the parsing raises) is printed and passed over
getState(raises) ==
    /\ agent = "state"
    /\ raises \/ lock_available
    /\ agent' = "vision"
    /\ UNCHANGED <<step, distance_moved, consecutive_stops, vision_analysis, decided,
                   step_before, issued, image_data, image_base64, writes,
                   failed_in_series, bridgeVars, pubVars, dirVars, auxVars>>

\* a failed classification that starts the count of BLOCKED decisions again
query_failure_resets(result) ==
    /\ agent = "vision"
    /\ lock_available
    /\ LET vision_data == queryVisionModel(result) IN
         IF vision_data.ok /\ vision_data.response # ""
         THEN /\ vision_analysis' = vision_data.response
              /\ agent' = "decide"
              /\ UNCHANGED <<failed_in_series, consecutive_stops, issued>>
         ELSE /\ agent' = "loop"
              /\ failed_in_series' = FALSE
              /\ consecutive_stops' = 0
              /\ issued' = <<>>
              /\ UNCHANGED vision_analysis
    /\ image_base64' = IF camera_rgba = None THEN image_base64 ELSE camera_rgba
    /\ UNCHANGED <<step, distance_moved, decided, step_before,
                   image_data, writes, bridgeVars, pubVars, dirVars, auxVars>>

\* queryVisionModel; on ok False, an empty response or an exception sleep(1)
\* and continue
query(result) ==
    /\ agent = "vision"
    /\ lock_available
    /\ LET vision_data == queryVisionModel(result) IN
         IF vision_data.ok /\ vision_data.response # ""
         THEN /\ vision_analysis' = vision_data.response
              /\ agent' = "decide"
              /\ UNCHANGED failed_in_series
         ELSE /\ agent' = "loop"
              /\ failed_in_series' = (consecutive_stops > 0)
              /\ UNCHANGED vision_analysis
    /\ image_base64' = IF camera_rgba = None THEN image_base64 ELSE camera_rgba
    /\ UNCHANGED <<step, distance_moved, consecutive_stops, decided, step_before, issued,
                   image_data, writes, bridgeVars, pubVars, dirVars, auxVars>>

\* parse the analysis and choose the movement
decide ==
    /\ agent = "decide"
    /\ LET d == decision(Primary[vision_analysis], consecutive_stops) IN
         /\ decided' = [movement_command |-> d.movement_command, speed |-> d.speed,
                        duration |-> d.duration]
         /\ consecutive_stops' = d.consecutive_stops
         /\ issued' = IF d.consecutive_stops = 0 THEN <<>> ELSE issued
         /\ failed_in_series' = IF d.consecutive_stops = 0 THEN FALSE ELSE failed_in_series
         /\ agent' = IF d.movement_command = "" THEN "stopping" ELSE "send"
    /\ UNCHANGED <<step, distance_moved, vision_analysis, step_before, image_data,
                   image_base64, writes, bridgeVars, pubVars, dirVars, auxVars>>

\* the command joins the series when its decision was BLOCKED
Issue(command) == IF consecutive_stops > 0 THEN Append(issued, command) ELSE issued

\* session.call_tool("giveMoveCommand", {direction, length, speed, yaw_rate: 0.8})
send_move ==
    /\ agent = "send"
    /\ giveMoveCommand(decided.movement_command, decided.duration, decided.speed, 8)
    /\ agent' = "await"
    /\ issued' = Issue(decided.movement_command)
    /\ writes' = writes + 1
    /\ UNCHANGED <<step, distance_moved, consecutive_stops, vision_analysis, decided,
                   step_before, image_data, image_base64, failed_in_series,
                   pubVars, dirVars, auxVars>>

\* the call raises before the server is reached: the error is printed, sleep(1)
send_move_raises ==
    /\ agent = "send"
    /\ agent' = "loop"
    /\ issued' = Issue(decided.movement_command)
    /\ vision_analysis' = ""
    /\ decided' = NoDecision
    /\ UNCHANGED <<step, distance_moved, consecutive_stops, step_before, image_data,
                   image_base64, writes, failed_in_series,
                   bridgeVars, pubVars, dirVars, auxVars>>

\* a reply that adds to distance_moved whatever the movement was
move_result_any_direction ==
    /\ agent = "await"
    /\ pc["mcp"] = "replied"
    /\ distance_moved' =
          IF reply["mcp"].ok
          THEN distance_moved + travelled(reply["mcp"].duration_s, decided.speed)
          ELSE distance_moved
    /\ handler_return("mcp")
    /\ agent' = "loop"
    /\ vision_analysis' = ""
    /\ decided' = NoDecision
    /\ UNCHANGED <<step, consecutive_stops, step_before, issued, image_data, image_base64,
                   writes, failed_in_series, pubVars, dirVars, auxVars>>

\* the reply of giveMoveCommand: forward movements add to distance_moved; sleep(1)
move_result ==
    /\ agent = "await"
    /\ pc["mcp"] = "replied"
    /\ distance_moved' =
          IF reply["mcp"].ok /\ decided.movement_command = "forward"
          THEN distance_moved + travelled(reply["mcp"].duration_s, decided.speed)
          ELSE distance_moved
    /\ handler_return("mcp")
    /\ agent' = "loop"
    /\ vision_analysis' = ""
    /\ decided' = NoDecision
    /\ UNCHANGED <<step, consecutive_stops, step_before, issued, image_data, image_base64,
                   writes, failed_in_series, pubVars, dirVars, auxVars>>

\* the loop gives up: session.call_tool("stop")
send_stop ==
    /\ agent = "stopping"
    /\ stop
    /\ agent' = "await_stop"
    /\ issued' = Issue("stop")
    /\ writes' = writes + 1
    /\ UNCHANGED <<step, distance_moved, consecutive_stops, vision_analysis, decided,
                   step_before, image_data, image_base64, failed_in_series,
                   pubVars, dirVars, auxVars>>

\* the stop call raises: the error is printed; sleep(2); break
send_stop_raises ==
    /\ agent = "stopping"
    /\ agent' = "summary"
    /\ issued' = Issue("stop")
    /\ vision_analysis' = ""
    /\ UNCHANGED <<step, distance_moved, consecutive_stops, decided, step_before,
                   image_data, image_base64, writes, failed_in_series,
                   bridgeVars, pubVars, dirVars, auxVars>>

\* the give-up branch without its break: the movement call follows the stop
stop_result_without_break ==
    /\ agent = "await_stop"
    /\ pc["mcp"] = "replied"
    /\ handler_return("mcp")
    /\ agent' = "send"
    /\ UNCHANGED <<step, distance_moved, consecutive_stops, vision_analysis, decided,
                   step_before, issued, image_data, image_base64, writes,
                   failed_in_series, pubVars, dirVars, auxVars>>

\* "Robot stopped"; sleep(2); break
stop_result ==
    /\ agent = "await_stop"
    /\ pc["mcp"] = "replied"
    /\ handler_return("mcp")
    /\ agent' = "summary"
    /\ vision_analysis' = ""
    /\ UNCHANGED <<step, distance_moved, consecutive_stops, decided, step_before, issued,
                   image_data, image_base64, writes, failed_in_series,
                   pubVars, dirVars, auxVars>>

\* while step < max_steps fails: the loop is left
loop_exit ==
    /\ agent = "loop"
    /\ step >= max_steps
    /\ agent' = "summary"
    /\ UNCHANGED <<step, distance_moved, consecutive_stops, vision_analysis, decided,
                   step_before, issued, image_data, image_base64, writes,
                   failed_in_series, bridgeVars, pubVars, dirVars, auxVars>>

\* "Navigation Complete", total steps, total forward distance
summary ==
    /\ agent = "summary"
    /\ agent' = "done"
    /\ UNCHANGED <<step, distance_moved, consecutive_stops, vision_analysis, decided,
                   step_before, issued, image_data, image_base64, writes,
                   failed_in_series, bridgeVars, pubVars, dirVars, auxVars>>

----------------------------------------------------------------------------
(* The bridge under concurrent producers and the physics callback.          *)

Durations == -1..MaxDuration
McpDirections == {"forward", "diagonal"}
HttpDirections == {"TURN_LEFT", ""}
RawCommands == {<<5, -5, 8>>}

InitBridge ==
    /\ clock = 1
    /\ lock = "free"
    /\ base_command = ZeroCmd
    /\ command_until_walltime = 0
    /\ pc = [p \in Threads |-> "idle"]
    /\ local = [p \in Producers |-> NoLocal]
    /\ reply = [p \in Producers |-> NoReply]
    /\ now = 0
    /\ cmd = ZeroCmd
    /\ first_step = TRUE
    /\ reset_needed = FALSE
    /\ lastWrite = [t |-> 0, duration_s |-> 0, vec |-> ZeroCmd, handler |-> "none",
                    stops |-> 0]
    /\ get_after_write = FALSE

InitDirIdle ==
    /\ direction = ""
    /\ dir_speed = 0
    /\ dir_yaw_rate = 0
    /\ dir_result = NoCall

NextBridge ==
    \/ tick /\ UNCHANGED <<pubVars, dirVars, navVars, auxVars>>
    \/ \E dir \in McpDirections, length \in Durations :
          giveMoveCommand(dir, length, 10, 8) /\ UNCHANGED <<pubVars, dirVars, navVars, auxVars>>
    \/ \E vec \in RawCommands, duration \in Durations :
          setBaseCommand(vec, duration) /\ UNCHANGED <<pubVars, dirVars, navVars, auxVars>>
    \/ stop /\ UNCHANGED <<pubVars, dirVars, navVars, auxVars>>
    \/ \E dir \in HttpDirections, length \in Durations :
          http_move(dir, length, 10, 8) /\ UNCHANGED <<pubVars, dirVars, navVars, auxVars>>
    \/ http_stop /\ UNCHANGED <<pubVars, dirVars, navVars, auxVars>>
    \/ \E p \in Producers : set_base_command_lock(p) /\ UNCHANGED <<pubVars, dirVars, navVars, auxVars>>
    \/ \E p \in Producers : set_base_command_unlock(p) /\ UNCHANGED <<pubVars, dirVars, navVars, auxVars>>
    \/ \E p \in Producers : handler_return(p) /\ UNCHANGED <<pubVars, dirVars, navVars, auxVars>>
    \/ physics_initialize /\ UNCHANGED <<pubVars, dirVars, navVars, auxVars>>
    \/ physics_reset /\ UNCHANGED <<pubVars, dirVars, navVars, auxVars>>
    \/ physics_sample /\ UNCHANGED <<pubVars, dirVars, navVars, auxVars>>
    \/ physics_get_base_command /\ UNCHANGED <<pubVars, dirVars, navVars, auxVars>>
    \/ physics_forward /\ UNCHANGED <<pubVars, dirVars, navVars, auxVars>>
    \/ world_stopped /\ UNCHANGED <<pubVars, dirVars, navVars, auxVars>>

InitSpecBridge == InitBridge /\ InitPub /\ InitDirIdle /\ InitAgent /\ InitAux

SpecBridge == InitSpecBridge /\ [][NextBridge]_vars

----------------------------------------------------------------------------
(* Claims about the bridge, checked under SpecBridge.                       *)

\* the step in which the physics callback's get_base_command returns
GetReturns == pc["sim"] = "sampled" /\ pc'["sim"] = "apply"

\* the end of the window a write asked for: its clock sample plus max(0, d)
WindowEnd(wr) == wr.t + (IF wr.duration_s < 0 THEN 0 ELSE wr.duration_s)

\* every clock value a reader can sample
Times == 0..(MaxTime + MaxDuration + 1)

\* C1: once the last write's window has elapsed (the reader's clock sample is
\* greater than the writer's sample t plus max(0, d)), get_base_command returns
\* (0,0,0), so the running physics tick applies zero velocity; nothing but the
\* reader's own step is needed.
C1_StaleCommandRevertsToZero ==
    [][(GetReturns /\ now > WindowEnd(lastWrite)) => cmd' = ZeroCmd]_vars

\* C1 witness: a running tick is about to apply zero although the bridge still
\* stores a non-zero vector, with every producer idle.
C1_Witness ==
    /\ pc["sim"] = "apply"
    /\ ~first_step
    /\ cmd = ZeroCmd
    /\ base_command # ZeroCmd
    /\ lastWrite.vec = base_command
    /\ now > WindowEnd(lastWrite)
    /\ \A p \in Producers : pc[p] = "idle"

\* C2: whenever no write is in progress the bridge holds exactly the vector and
\* the expiry of the write that took the lock last, and a reader gets (0,0,0)
\* or the whole vector of that one write.
C2_LastWriteWins ==
    /\ [](lock = "free" =>
            /\ base_command = lastWrite.vec
            /\ command_until_walltime = WindowEnd(lastWrite))
    /\ [][GetReturns => cmd' \in {ZeroCmd, lastWrite.vec}]_vars

\* C2 witness: a later, shorter window has replaced an earlier, longer one that
\* another producer was writing at the same time, and the reader got the
\* later write's vector.
C2_Witness ==
    /\ lock = "free"
    /\ pc["sim"] = "apply"
    /\ cmd = lastWrite.vec
    /\ cmd # ZeroCmd
    /\ \E p \in Producers :
          /\ pc[p] = "sampled"
          /\ local[p].t <= lastWrite.t
          /\ local[p].until > command_until_walltime
          /\ local[p].vec # lastWrite.vec

\* C3 as stated: after a write with d < 0 every get_base_command performed
\* after it, one sampling the writer's own clock value included, returns (0,0,0).
C3_NegativeDurationExpiredOnArrival ==
    [][(GetReturns /\ get_after_write /\ lastWrite.duration_s < 0 /\ now >= lastWrite.t)
          => cmd' = ZeroCmd]_vars

\* C3 amended: a write with d < 0 stores the window end t (duration clamped to
\* 0); a get_base_command whose clock sample is greater than t returns (0,0,0),
\* and one whose sample is t or less returns the stored vector.
C3_NegativeDurationClampsToZero ==
    /\ []((lock = "free" /\ lastWrite.duration_s < 0)
              => command_until_walltime = lastWrite.t)
    /\ [][(GetReturns /\ lastWrite.duration_s < 0)
              => cmd' = (IF now > lastWrite.t THEN ZeroCmd ELSE lastWrite.vec)]_vars

\* C3 witness: a non-zero command written with d < 0 has been read as zero by a
\* get that sampled a later clock value.
C3_Witness ==
    /\ pc["sim"] = "apply"
    /\ lastWrite.duration_s < 0
    /\ lastWrite.vec # ZeroCmd
    /\ base_command = lastWrite.vec
    /\ now > lastWrite.t
    /\ cmd = ZeroCmd

\* C4: after one stop() and after two consecutive stop() calls, whatever was
\* stored before, get_base_command returns (0,0,0) for every clock sample, the
\* same observable command state in both cases.
C4_StopIdempotent ==
    (lock = "free" /\ lastWrite.stops >= 1)
        => \A n \in Times : get_base_command(n) = ZeroCmd

\* C4 witness: the second of two consecutive stops has returned while the stop
\* window is still open (the clock has not moved since it was written).
C4_Witness ==
    /\ lock = "free"
    /\ lastWrite.stops = 2
    /\ lastWrite.t = clock
    /\ \E p \in Producers : pc[p] = "replied" /\ reply[p].kind = "ok"

----------------------------------------------------------------------------
(* direction_to_command as a pure function: the arguments are drawn from    *)
(* Directions, Speeds and YawRates and the function is applied to them.     *)

InitDir ==
    /\ direction \in Directions
    /\ dir_speed \in Speeds
    /\ dir_yaw_rate \in YawRates
    /\ dir_result = NoCall

call_direction_to_command ==
    /\ dir_result = NoCall
    /\ dir_result' = direction_to_command(direction, dir_speed, dir_yaw_rate)
    /\ UNCHANGED <<direction, dir_speed, dir_yaw_rate>>

NextDir == call_direction_to_command /\ UNCHANGED <<bridgeVars, pubVars, navVars, auxVars>>

InitSpecDir == InitBridge /\ InitPub /\ InitDir /\ InitAgent /\ InitAux

SpecDir == InitSpecDir /\ [][NextDir]_vars

\* the synonym table of the specification: names, and the vector as signs of
\* speed (vx, vy) and of yaw_rate
SynonymTable ==
    { [names |-> {"forward", "fwd", "front"},                     sign |-> <<1, 0, 0>>],
      [names |-> {"back", "backward", "reverse"},                 sign |-> <<-1, 0, 0>>],
      [names |-> {"left", "strafe_left"},                         sign |-> <<0, 1, 0>>],
      [names |-> {"right", "strafe_right"},                       sign |-> <<0, -1, 0>>],
      [names |-> {"turn_left", "yaw_left", "rotate_left"},        sign |-> <<0, 0, 1>>],
      [names |-> {"turn_right", "yaw_right", "rotate_right"},     sign |-> <<0, 0, -1>>],
      [names |-> {"stop", "halt"},                                sign |-> <<0, 0, 0>>] }

RowVector(row) ==
    <<row.sign[1] * dir_speed, row.sign[2] * dir_speed, row.sign[3] * dir_yaw_rate>>

\* the same letter in either case
SameLetter(a, b) ==
    \/ a = b
    \/ \E i \in 1..Len(UpperChars) :
          {a, b} = {CharAt(UpperChars, i), CharAt(LowerChars, i)}

\* s and name are the same string up to the case of letters
EqualIgnoringCase(s, name) ==
    /\ Len(s) = Len(name)
    /\ \A i \in 1..Len(s) : SameLetter(CharAt(s, i), CharAt(name, i))

\* s is name up to case, inside leading and trailing whitespace
EqualIgnoringCaseAndPadding(s, name) ==
    \E i \in 0..Len(s), j \in 0..Len(s) :
        /\ i <= j
        /\ \A k \in 1..i : CharAt(s, k) \in Whitespace
        /\ \A k \in (j + 1)..Len(s) : CharAt(s, k) \in Whitespace
        /\ EqualIgnoringCase(SubSeq(s, i + 1, j), name)

\* C6 as stated: the result is the row of the table whose names contain the
\* token up to case, and a token that is in no row up to case fails.
C6_SynonymTableIgnoringCase ==
    dir_result # NoCall =>
        /\ \A row \in SynonymTable :
              (\E n \in row.names : EqualIgnoringCase(direction, n))
                  => dir_result = Returned(RowVector(row))
        /\ (\A row \in SynonymTable : \A n \in row.names : ~EqualIgnoringCase(direction, n))
              => dir_result = ValueError

\* C6 amended: the token is compared up to case after leading and trailing
\* whitespace is removed; with that, the result is the row of the table and
\* every other token fails.
C6_SynonymTableIgnoringCaseAndPadding ==
    dir_result # NoCall =>
        /\ \A row \in SynonymTable :
              (\E n \in row.names : EqualIgnoringCaseAndPadding(direction, n))
                  => dir_result = Returned(RowVector(row))
        /\ (\A row \in SynonymTable :
               \A n \in row.names : ~EqualIgnoringCaseAndPadding(direction, n))
              => dir_result = ValueError

\* C6 witness: a padded upper-case synonym has been translated.
C6_Witness ==
    /\ direction = "\tSTRAFE_RIGHT \n"
    /\ dir_speed = 10
    /\ dir_result = Returned(<<0, -10, 0>>)

----------------------------------------------------------------------------
(* Move requests, valid and invalid, against a bridge whose snapshot and    *)
(* camera frame the simulation thread keeps publishing.  The clock stands   *)
(* still here; what depends on time is checked under SpecBridge.            *)

NextApi ==
    \/ \E dir \in McpDirections : giveMoveCommand(dir, 1, 10, 8) /\ UNCHANGED <<pubVars, dirVars, navVars, auxVars>>
    \/ \E dir \in HttpDirections : http_move(dir, 1, 10, 8) /\ UNCHANGED <<pubVars, dirVars, navVars, auxVars>>
    \/ \E p \in Producers : set_base_command_lock(p) /\ UNCHANGED <<pubVars, dirVars, navVars, auxVars>>
    \/ \E p \in Producers : set_base_command_unlock(p) /\ UNCHANGED <<pubVars, dirVars, navVars, auxVars>>
    \/ \E p \in Producers : handler_return(p) /\ UNCHANGED <<pubVars, dirVars, navVars, auxVars>>
    \/ run_sample /\ UNCHANGED <<dirVars, navVars, auxVars>>
    \/ run_get_base_command /\ UNCHANGED <<dirVars, navVars, auxVars>>
    \/ \E rgba \in Frames \cup {None} : run_set_camera_rgba(rgba) /\ UNCHANGED <<dirVars, navVars, auxVars>>
    \/ run_camera_raises /\ UNCHANGED <<dirVars, navVars, auxVars>>
    \/ \E spot \in SpotPoses, camera \in CameraSummaries :
          run_update_state(spot, camera) /\ UNCHANGED <<dirVars, navVars, auxVars>>

InitSpecApi == InitBridge /\ InitPub /\ InitDirIdle /\ InitAgent /\ InitAux

SpecApi == InitSpecApi /\ [][NextApi]_vars

\* the directions that match no name of the synonym table
UnknownDirections ==
    {dir \in Directions :
        \A row \in SynonymTable : \A n \in row.names : ~EqualIgnoringCaseAndPadding(dir, n)}

\* thread p takes a request in this step; the request it takes
TakesRequest(p) == pc[p] = "idle" /\ pc'[p] # "idle"
Request(p) == IF pc'[p] = "replied" THEN reply'[p] ELSE local'[p]

\* C5: a move request (giveMoveCommand or /move) with an unknown direction, the
\* empty one included, is answered with an error and leaves the stored vector,
\* its expiry, the last snapshot and the camera frame as they were.
C5_UnknownDirectionLeavesBridge ==
    [][\A p \in Producers :
          (/\ TakesRequest(p)
           /\ Request(p).handler \in {"giveMoveCommand", "/move"}
           /\ Request(p).dir \in UnknownDirections)
              => /\ pc'[p] = "replied"
                 /\ reply'[p].kind = "error"
                 /\ ~reply'[p].ok
                 /\ UNCHANGED <<base_command, command_until_walltime, last_state,
                                camera_rgba, lock, local>>]_vars

\* C5 witness: an HTTP /move with the empty direction has been answered with an
\* error while the bridge holds a live command, a snapshot and a frame.
C5_Witness ==
    /\ pc["http"] = "replied"
    /\ reply["http"].kind = "error"
    /\ reply["http"].dir = ""
    /\ base_command # ZeroCmd
    /\ command_until_walltime >= clock
    /\ last_state # EmptyDict
    /\ camera_rgba # None
    /\ lock = "free"

----------------------------------------------------------------------------
(* The navigation loop driving the MCP tools.  The agent connects to a      *)
(* server whose simulation has published nothing yet, or a frame and a      *)
(* snapshot.  The clock stands still here.                                  *)

InitSpecNav ==
    /\ InitBridge
    /\ InitDirIdle
    /\ InitAgent
    /\ InitAux
    /\ camera_rgba \in Frames \cup {None}
    /\ last_state =
          IF camera_rgba = None THEN EmptyDict
          ELSE [timestamp |-> clock, spot |-> SpotPose,
                base_command |-> [vx |-> 0, vy |-> 0, yaw_rate |-> 0],
                camera |-> [resolution |-> <<512, 256>>, rgba_mean |-> camera_rgba,
                            has_frame |-> TRUE]]

NextNav ==
    \/ \E encoded \in BOOLEAN, delivered \in BOOLEAN : capture(encoded, delivered)
    \/ \E raises \in BOOLEAN : getState(raises)
    \/ \E result \in VisionResults : query(result)
    \/ decide
    \/ send_move
    \/ send_move_raises
    \/ set_base_command_lock("mcp") /\ UNCHANGED <<pubVars, dirVars, navVars, auxVars>>
    \/ set_base_command_unlock("mcp") /\ UNCHANGED <<pubVars, dirVars, navVars, auxVars>>
    \/ move_result
    \/ send_stop
    \/ send_stop_raises
    \/ stop_result
    \/ loop_exit
    \/ summary

SpecNav == InitSpecNav /\ [][NextNav]_vars

\* the analyses the loop can receive
Analyses == {Stripped[m] : m \in ModelResponses} \ {""}

\* those whose decision is BLOCKED
BlockedAnalyses ==
    {a \in Analyses :
        /\ Contains(first_line(upper(a)), "BLOCKED")
        /\ \A word \in {"FORWARD", "SLOW", "OBSTACLE_LEFT", "OBSTACLE_RIGHT"} :
              ~Contains(first_line(upper(a)), word)}

\* those whose first line contains FORWARD
ForwardAnalyses == {a \in Analyses : Contains(first_line(a), "FORWARD")}

EscalationOrder == <<"turn_left", "turn_left", "turn_right", "turn_right", "stop">>

\* how many commands of the running series of BLOCKED decisions have been issued
IssuedSoFar ==
    IF agent \in {"send", "stopping"} THEN consecutive_stops - 1 ELSE consecutive_stops

\* C7: over consecutive BLOCKED decisions consecutive_stops counts 0,1,2,3,4,5,
\* the commands issued are turn_left, turn_left, turn_right, turn_right, stop in
\* this order, and after the fifth the loop is left and issues nothing more.
C7_BlockedEscalation ==
    /\ [](consecutive_stops \in 0..5)
    /\ [](consecutive_stops > 0 => issued = SubSeq(EscalationOrder, 1, IssuedSoFar))
    /\ [](consecutive_stops = 5 => agent \in {"stopping", "await_stop", "summary", "done"})
    /\ [][(agent = "decide" /\ vision_analysis \in BlockedAnalyses)
             => consecutive_stops' = consecutive_stops + 1]_vars
    /\ [][issued = EscalationOrder
             => /\ issued' = issued
                /\ agent' \in {"await_stop", "summary", "done"}
                /\ local'["mcp"].handler \in {"stop", "none"}]_vars

C7_Witness ==
    /\ agent = "done"
    /\ consecutive_stops = 5
    /\ issued = EscalationOrder
    /\ lastWrite.handler = "stop"

\* C8: a FORWARD first line gives giveMoveCommand forward with speed 1.0 and
\* length 2.0, the bridge then holds (1.0, 0, 0) for 2 s, and the successful
\* reply adds exactly 2.0 m to distance_moved.
C8_ForwardMovesTwoMetres ==
    /\ []((agent \in {"send", "await"} /\ vision_analysis \in ForwardAnalyses)
             => decided = [movement_command |-> "forward", speed |-> 10, duration |-> 2])
    /\ [][(agent = "send" /\ agent' = "await" /\ vision_analysis \in ForwardAnalyses)
             => /\ local'["mcp"].handler = "giveMoveCommand"
                /\ local'["mcp"].vec = <<10, 0, 0>>
                /\ local'["mcp"].duration_s = 2]_vars
    /\ []((agent = "await" /\ pc["mcp"] = "replied" /\ vision_analysis \in ForwardAnalyses)
             => /\ base_command = <<10, 0, 0>>
                /\ command_until_walltime = lastWrite.t + 2
                /\ lastWrite.t = clock)
    /\ [][(agent = "await" /\ agent' = "loop" /\ vision_analysis \in ForwardAnalyses
           /\ reply["mcp"].ok)
             => distance_moved' = distance_moved + 20]_vars

C8_Witness ==
    /\ agent = "loop"
    /\ step = 1
    /\ distance_moved = 20
    /\ base_command = <<10, 0, 0>>
    /\ command_until_walltime = clock + 2

\* C9: an attempt that fails at the camera or at the classification leaves
\* step where it was when the attempt began.
C9_FailedAttemptKeepsStep ==
    [][(agent \in {"loop", "vision"} /\ agent' = "loop") => step' = step_before']_vars

\* C10: when the loop has ended after a movement command, the last command the
\* bridge received is a stop: zero vector, zero duration.
C10_StoppedOnTermination ==
    (agent \in {"summary", "done"} /\ lastWrite.handler # "none")
        => /\ lastWrite.handler = "stop"
           /\ lastWrite.vec = ZeroCmd
           /\ lastWrite.duration_s = 0
           /\ base_command = ZeroCmd

\* C11: the loop is left only from its condition with step = max_steps or with
\* consecutive_stops = 5; every failure leads back to the loop, and while
\* step < max_steps another iteration can begin.
C11_LoopLeftOnlyAtLimitOrStopped ==
    /\ [][(agent \notin {"summary", "done"} /\ agent' \in {"summary", "done"})
             => \/ agent = "loop" /\ step = max_steps
                \/ consecutive_stops = 5]_vars
    /\ []((agent = "loop" /\ step < max_steps)
             => ENABLED (\E encoded \in BOOLEAN, delivered \in BOOLEAN :
                            capture(encoded, delivered)))
    /\ [](agent # "done" => ENABLED NextNav)

C11_Witness ==
    /\ agent = "summary"
    /\ step = max_steps
    /\ consecutive_stops = 0
    /\ camera_rgba # None
    /\ lastWrite.handler = "none"

----------------------------------------------------------------------------
(* getCameraImage and queryVisionModel step by step in the MCP server       *)
(* thread (src/src/mcp_server.py): the frame is read under the bridge lock, *)
(* then encoded and, for queryVisionModel, posted to the vision model.      *)

ImageTools == {"getCameraImage", "queryVisionModel"}

\* the locals of a handler that read the frame
ToolLocal(handler, frame) ==
    [handler |-> handler, dir |-> "", vec |-> ZeroCmd, duration_s |-> 0, t |-> 0,
     until |-> 0, rgba |-> frame]

\* {"ok": False, "error": ...}
ToolError(handler, error) ==
    [kind |-> "error", ok |-> FALSE, applied |-> <<>>, duration_s |-> 0,
     handler |-> handler, dir |-> "", error |-> error]

\* get_camera_rgba entered with the lock kept by the handler
tool_camera_lock_kept(handler) ==
    /\ pc["mcp"] = "idle"
    /\ lock_available
    /\ lock' = "mcp"
    /\ local' = [local EXCEPT !["mcp"] = ToolLocal(handler, camera_rgba)]
    /\ pc' = [pc EXCEPT !["mcp"] = "encoding"]
    /\ UNCHANGED <<clock, base_command, command_until_walltime, reply, now, cmd,
                   first_step, reset_needed, lastWrite, get_after_write>>

\* rgba = bridge.get_camera_rgba(): with self._lock
tool_camera_lock(handler) ==
    /\ pc["mcp"] = "idle"
    /\ lock_available
    /\ lock' = "mcp"
    /\ local' = [local EXCEPT !["mcp"] = ToolLocal(handler, camera_rgba)]
    /\ pc' = [pc EXCEPT !["mcp"] = "camera_locked"]
    /\ UNCHANGED <<clock, base_command, command_until_walltime, reply, now, cmd,
                   first_step, reset_needed, lastWrite, get_after_write>>

\* return self._camera_rgba: the lock is released; if rgba is None the handler
\* returns "No camera frame available"
tool_camera_unlock ==
    /\ pc["mcp"] = "camera_locked"
    /\ lock' = "free"
    /\ IF local["mcp"].rgba = None
       THEN /\ reply' = [reply EXCEPT !["mcp"] =
                            ToolError(local["mcp"].handler, "No camera frame available")]
            /\ local' = [local EXCEPT !["mcp"] = NoLocal]
            /\ pc' = [pc EXCEPT !["mcp"] = "replied"]
       ELSE /\ pc' = [pc EXCEPT !["mcp"] = "encoding"]
            /\ UNCHANGED <<local, reply>>
    /\ UNCHANGED <<clock, base_command, command_until_walltime, now, cmd,
                   first_step, reset_needed, lastWrite, get_after_write>>

\* the frame is encoded as PNG and base64; getCameraImage returns it, and an
\* exception becomes {"ok": False, "error": str(e)}
tool_encode(raises) ==
    /\ pc["mcp"] = "encoding"
    /\ IF raises
       THEN /\ reply' = [reply EXCEPT !["mcp"] = ToolError(local["mcp"].handler, "str(e)")]
            /\ local' = [local EXCEPT !["mcp"] = NoLocal]
            /\ pc' = [pc EXCEPT !["mcp"] = "replied"]
       ELSE IF local["mcp"].handler = "getCameraImage"
       THEN /\ reply' = [reply EXCEPT !["mcp"] =
                            [kind |-> "image", ok |-> TRUE, applied |-> <<>>,
                             duration_s |-> 0, handler |-> "getCameraImage", dir |-> "",
                             image_base64 |-> local["mcp"].rgba]]
            /\ local' = [local EXCEPT !["mcp"] = NoLocal]
            /\ pc' = [pc EXCEPT !["mcp"] = "replied"]
       ELSE /\ pc' = [pc EXCEPT !["mcp"] = "posting"]
            /\ UNCHANGED <<local, reply>>
    /\ UNCHANGED <<clock, lock, base_command, command_until_walltime, now, cmd,
                   first_step, reset_needed, lastWrite, get_after_write>>

\* requests.post(...) returns or raises: status 200 gives the stripped response
vision_post(result) ==
    /\ pc["mcp"] = "posting"
    /\ reply' = [reply EXCEPT !["mcp"] =
                    IF result.status = 200
                    THEN [kind |-> "vision", ok |-> TRUE, applied |-> <<>>, duration_s |-> 0,
                          handler |-> "queryVisionModel", dir |-> "",
                          response |-> Stripped[result.response]]
                    ELSE ToolError("queryVisionModel", "str(e)")]
    /\ local' = [local EXCEPT !["mcp"] = NoLocal]
    /\ pc' = [pc EXCEPT !["mcp"] = "replied"]
    /\ UNCHANGED <<clock, lock, base_command, command_until_walltime, now, cmd,
                   first_step, reset_needed, lastWrite, get_after_write>>

----------------------------------------------------------------------------
(* The image tools of the MCP thread beside an HTTP producer, the physics   *)
(* callback and the publishing loop.  The clock stands still here.          *)

\* set_camera_rgba with its argument recorded
set_camera_rgba_recorded(rgba) ==
    /\ run_set_camera_rgba(rgba)
    /\ last_set' = rgba
    /\ UNCHANGED <<heap, returned, forwarded, dirVars, navVars>>

ToolVisionResults ==
    {[status |-> 200, response |-> "FORWARD: clear path"],
     [status |-> 500, response |-> ""]}

NextTools ==
    \/ \E handler \in ImageTools :
          tool_camera_lock(handler) /\ UNCHANGED <<pubVars, dirVars, navVars, auxVars>>
    \/ tool_camera_unlock /\ UNCHANGED <<pubVars, dirVars, navVars, auxVars>>
    \/ \E raises \in BOOLEAN : tool_encode(raises) /\ UNCHANGED <<pubVars, dirVars, navVars, auxVars>>
    \/ \E result \in ToolVisionResults :
          vision_post(result) /\ UNCHANGED <<pubVars, dirVars, navVars, auxVars>>
    \/ \E p \in Producers : handler_return(p) /\ UNCHANGED <<pubVars, dirVars, navVars, auxVars>>
    \/ http_move("TURN_LEFT", 1, 10, 8) /\ UNCHANGED <<pubVars, dirVars, navVars, auxVars>>
    \/ http_stop /\ UNCHANGED <<pubVars, dirVars, navVars, auxVars>>
    \/ set_base_command_lock("http") /\ UNCHANGED <<pubVars, dirVars, navVars, auxVars>>
    \/ set_base_command_unlock("http") /\ UNCHANGED <<pubVars, dirVars, navVars, auxVars>>
    \/ physics_initialize /\ UNCHANGED <<pubVars, dirVars, navVars, auxVars>>
    \/ physics_sample /\ UNCHANGED <<pubVars, dirVars, navVars, auxVars>>
    \/ physics_get_base_command /\ UNCHANGED <<pubVars, dirVars, navVars, auxVars>>
    \/ physics_forward /\ UNCHANGED <<pubVars, dirVars, navVars, auxVars>>
    \/ run_sample /\ UNCHANGED <<dirVars, navVars, auxVars>>
    \/ run_get_base_command /\ UNCHANGED <<dirVars, navVars, auxVars>>
    \/ \E rgba \in Frames \cup {None} : set_camera_rgba_recorded(rgba)
    \/ run_camera_raises /\ UNCHANGED <<dirVars, navVars, auxVars>>
    \/ run_update_state(SpotPose, [resolution |-> <<512, 256>>])
          /\ UNCHANGED <<dirVars, navVars, auxVars>>

InitSpecTools == InitBridge /\ InitPub /\ InitDirIdle /\ InitAgent /\ InitAux

SpecTools == InitSpecTools /\ [][NextTools]_vars

\* the MCP thread encodes an image or waits for the vision model
ExternalCall == pc["mcp"] \in {"encoding", "posting"}

\* C12 as stated: while a thread is in an external call the bridge lock is free.
C12_LockFreeDuringExternalCall == ExternalCall => lock = "free"

\* C12: the thread that is in an external call does not hold the bridge lock,
\* and a physics tick waiting in get_base_command can take the lock unless
\* another thread is inside its own critical section.
C12_LockNotHeldAcrossExternalCall ==
    /\ ExternalCall => lock # "mcp"
    /\ (ExternalCall /\ pc["sim"] = "sampled" /\ lock # "http")
          => ENABLED physics_get_base_command

C12_Witness ==
    /\ pc["mcp"] = "posting"
    /\ pc["sim"] = "sampled"
    /\ lock = "free"
    /\ local["mcp"].rgba # None

----------------------------------------------------------------------------
(* SimBridge.update_state and get_state with the nested dicts of a snapshot *)
(* as objects (src/src/bridge.py): heap[i] is the dict with identity i, and *)
(* last_state and returned hold identities under spot, base_command and     *)
(* camera.                                                                  *)

NestedKeys == {"spot", "base_command", "camera"}

\* update_state(state) from run: the caller builds three new dicts;
\* self._last_state = dict(state) keeps their identities
update_state(spot, base, camera) ==
    /\ lock_available
    /\ Len(heap) < 3 * MaxSnapshots
    /\ heap' = heap \o <<spot, base, camera>>
    /\ last_state' = [timestamp |-> clock, spot |-> Len(heap) + 1,
                      base_command |-> Len(heap) + 2, camera |-> Len(heap) + 3]
    /\ UNCHANGED <<returned, last_set, forwarded, camera_rgba, bridgeVars, dirVars, navVars>>

\* with self._lock: return dict(self._last_state)
get_state ==
    /\ lock_available
    /\ returned' = last_state
    /\ UNCHANGED <<heap, last_state, last_set, forwarded, camera_rgba, bridgeVars, dirVars,
                   navVars>>

\* the caller assigns to a key of the dict it was given
reader_sets_timestamp ==
    /\ returned # EmptyDict
    /\ returned.timestamp # 0
    /\ returned' = [returned EXCEPT !.timestamp = 0]
    /\ UNCHANGED <<heap, last_state, last_set, forwarded, camera_rgba, bridgeVars, dirVars,
                   navVars>>

\* the caller clears a nested dict of the dict it was given
reader_clears(key) ==
    /\ returned # EmptyDict
    /\ heap[returned[key]] # EmptyDict
    /\ heap' = [heap EXCEPT ![returned[key]] = EmptyDict]
    /\ UNCHANGED <<returned, last_state, last_set, forwarded, camera_rgba, bridgeVars,
                   dirVars, navVars>>

\* what a dict of identities denotes
Snapshot(d, h) ==
    IF d = EmptyDict THEN EmptyDict
    ELSE [timestamp |-> d.timestamp, spot |-> h[d.spot],
          base_command |-> h[d.base_command], camera |-> h[d.camera]]

NextState ==
    \/ tick /\ UNCHANGED <<pubVars, dirVars, navVars, auxVars>>
    \/ \E spot \in SpotPoses, camera \in CameraSummaries :
          update_state(spot, [vx |-> 0, vy |-> 0, yaw_rate |-> 0], camera)
    \/ get_state
    \/ reader_sets_timestamp
    \/ \E key \in NestedKeys : reader_clears(key)

InitSpecState == InitBridge /\ InitPub /\ InitDirIdle /\ InitAgent /\ InitAux

SpecState == InitSpecState /\ [][NextState]_vars

\* C13: what get_state returns changes only by update_state: nothing the
\* caller does to the dict it was given, or to the dicts nested in it, shows in
\* a later get_state.
C13_ReaderCannotChangeSnapshot ==
    [][last_state' = last_state
          => Snapshot(last_state', heap') = Snapshot(last_state, heap)]_vars

----------------------------------------------------------------------------
(* Claims about the decision of the navigation loop, checked under SpecNav. *)

\* the step that parses the analysis and decides
Decides == agent = "decide" /\ agent' # "decide"

\* C14: a decision that is not BLOCKED sets consecutive_stops to 0, a BLOCKED
\* decision adds exactly 1, nothing else changes it, it counts the BLOCKED
\* decisions since the last other decision, and it stays within 0..5.
C14_ConsecutiveStopsCountsBlocked ==
    /\ [][(Decides /\ vision_analysis \notin BlockedAnalyses)
             => consecutive_stops' = 0]_vars
    /\ [][(Decides /\ vision_analysis \in BlockedAnalyses)
             => consecutive_stops' = consecutive_stops + 1]_vars
    /\ [][consecutive_stops' # consecutive_stops => Decides]_vars
    /\ [](consecutive_stops =
             Len(issued) + (IF agent \in {"send", "stopping"} /\ consecutive_stops > 0
                            THEN 1 ELSE 0))
    /\ [](consecutive_stops >= 0 /\ consecutive_stops <= 5)

C14_Witness ==
    /\ agent = "send"
    /\ consecutive_stops = 0
    /\ decided.movement_command = "forward"
    /\ decided.duration = 1
    /\ lastWrite.vec = <<0, 0, -8>>

\* the labels in their priority order
Labels == <<"FORWARD", "SLOW", "OBSTACLE_LEFT", "OBSTACLE_RIGHT", "BLOCKED">>

\* the first label in priority order that the line contains, or FALLBACK
FirstLabel(line) ==
    IF \E i \in 1..Len(Labels) : Contains(line, Labels[i])
    THEN Labels[CHOOSE i \in 1..Len(Labels) :
                    /\ Contains(line, Labels[i])
                    /\ \A j \in 1..(i - 1) : ~Contains(line, Labels[j])]
    ELSE "FALLBACK"

\* the label of every analysis, from its uppercased first line alone
LabelOf == [a \in Analyses |-> FirstLabel(first_line(upper(a)))] @@ <<>>

\* decision -> (primitive, speed, duration)
Policy ==
    [FORWARD        |-> [movement_command |-> "forward", speed |-> 10, duration |-> 2],
     SLOW           |-> [movement_command |-> "forward", speed |-> 10, duration |-> 1],
     OBSTACLE_LEFT  |-> [movement_command |-> "left",    speed |-> 10, duration |-> 1],
     OBSTACLE_RIGHT |-> [movement_command |-> "right",   speed |-> 10, duration |-> 1],
     FALLBACK       |-> [movement_command |-> "forward", speed |-> 10, duration |-> 1]]

\* C15: the decision is the first label, in the order FORWARD, SLOW,
\* OBSTACLE_LEFT, OBSTACLE_RIGHT, BLOCKED, that the uppercased first line of
\* the analysis contains, the fallback when it contains none; every decision
\* but BLOCKED gives the primitive, speed and duration of the policy table.
C15_DecisionByPriority ==
    /\ [][(Decides /\ LabelOf[vision_analysis] # "BLOCKED")
             => /\ decided' = Policy[LabelOf[vision_analysis]]
                /\ agent' = "send"]_vars
    /\ [][(Decides /\ LabelOf[vision_analysis] = "BLOCKED")
             => decided'.movement_command \in {"turn_left", "turn_right", ""}]_vars

C15_Witness ==
    /\ agent = "send"
    /\ vision_analysis = "OBSTACLE_RIGHT or OBSTACLE_LEFT"
    /\ decided = [movement_command |-> "left", speed |-> 10, duration |-> 1]

----------------------------------------------------------------------------
(* Further claims about the bridge, checked under SpecBridge.               *)

\* C16: the stored expiry is never earlier than the clock value its writer
\* sampled, for the command the bridge holds and for every write under way.
C16_ExpiryNotBeforeCreation ==
    /\ lock = "free" => command_until_walltime >= lastWrite.t
    /\ \A p \in Producers :
          pc[p] \in {"sampled", "locked"} => local[p].until >= local[p].t

C16_Witness ==
    /\ lock = "free"
    /\ lastWrite.handler = "setBaseCommand"
    /\ lastWrite.duration_s < 0
    /\ lastWrite.t = MaxTime
    /\ command_until_walltime = MaxTime

----------------------------------------------------------------------------
(* Claims about the camera frame slot, checked under SpecTools.             *)

\* the frame the slot has to hold: that of the latest set_camera_rgba
LatestFrame == IF last_set = Never THEN None ELSE last_set

\* C17: the slot holds the argument of the latest set_camera_rgba, None before
\* the first; get_camera_rgba returns it, a handler reports "No camera frame
\* available" exactly when that is None, and getCameraImage returns the frame
\* it read.
C17_CameraSlotLatestWins ==
    /\ [](camera_rgba = LatestFrame)
    /\ [][(pc["mcp"] = "idle" /\ pc'["mcp"] = "camera_locked")
             => local'["mcp"].rgba = LatestFrame]_vars
    /\ [][(pc["mcp"] = "camera_locked" /\ pc'["mcp"] = "replied")
             => /\ reply'["mcp"].error = "No camera frame available"
                /\ LatestFrame = None]_vars
    /\ [][(pc["mcp"] = "camera_locked" /\ pc'["mcp"] = "encoding")
             => /\ LatestFrame \in Frames
                /\ local["mcp"].rgba = LatestFrame]_vars
    /\ [][(pc["mcp"] = "encoding" /\ pc'["mcp"] = "replied" /\ reply'["mcp"].ok)
             => reply'["mcp"].image_base64 = local["mcp"].rgba]_vars

C17_Witness ==
    /\ pc["mcp"] = "replied"
    /\ reply["mcp"].kind = "error"
    /\ reply["mcp"].handler = "getCameraImage"
    /\ reply["mcp"].error = "No camera frame available"
    /\ last_set = None
    /\ last_state # EmptyDict

----------------------------------------------------------------------------
(* The physics callback beside one producer and the advancing clock.        *)

\* self.spot.forward(step_size, cmd), with the command recorded
physics_forward_recorded ==
    /\ physics_forward
    /\ forwarded' = cmd
    /\ UNCHANGED <<heap, returned, last_set, pubVars, dirVars, navVars>>

NextPhysics ==
    \/ tick /\ UNCHANGED <<pubVars, dirVars, navVars, auxVars>>
    \/ \E dir \in {"forward", "left"}, length \in Durations :
          giveMoveCommand(dir, length, 10, 8) /\ UNCHANGED <<pubVars, dirVars, navVars, auxVars>>
    \/ stop /\ UNCHANGED <<pubVars, dirVars, navVars, auxVars>>
    \/ set_base_command_lock("mcp") /\ UNCHANGED <<pubVars, dirVars, navVars, auxVars>>
    \/ set_base_command_unlock("mcp") /\ UNCHANGED <<pubVars, dirVars, navVars, auxVars>>
    \/ handler_return("mcp") /\ UNCHANGED <<pubVars, dirVars, navVars, auxVars>>
    \/ physics_initialize /\ UNCHANGED <<pubVars, dirVars, navVars, auxVars>>
    \/ physics_reset /\ UNCHANGED <<pubVars, dirVars, navVars, auxVars>>
    \/ physics_sample /\ UNCHANGED <<pubVars, dirVars, navVars, auxVars>>
    \/ physics_get_base_command /\ UNCHANGED <<pubVars, dirVars, navVars, auxVars>>
    \/ physics_forward_recorded
    \/ world_stopped /\ UNCHANGED <<pubVars, dirVars, navVars, auxVars>>

InitSpecPhysics == InitBridge /\ InitPub /\ InitDirIdle /\ InitAgent /\ InitAux

SpecPhysics == InitSpecPhysics /\ [][NextPhysics]_vars

\* a step of on_physics_step that begins a tick
TickBegins ==
    /\ pc["sim"] = "idle"
    /\ \/ first_step' # first_step
       \/ reset_needed /\ ~reset_needed'
       \/ pc'["sim"] # "idle"

\* C18: a tick with first_step set only initializes and clears first_step; a
\* tick with a reset requested clears the request and sets first_step again;
\* both apply no command; only a tick with neither reads and applies one.
C18_PhysicsStepStates ==
    /\ [][(TickBegins /\ first_step)
             => /\ ~first_step'
                /\ reset_needed' = reset_needed
                /\ pc'["sim"] = "idle"
                /\ UNCHANGED <<cmd, forwarded>>]_vars
    /\ [][(TickBegins /\ ~first_step /\ reset_needed)
             => /\ first_step'
                /\ ~reset_needed'
                /\ pc'["sim"] = "idle"
                /\ UNCHANGED <<cmd, forwarded>>]_vars
    /\ [][(TickBegins /\ ~first_step /\ ~reset_needed) => pc'["sim"] = "sampled"]_vars
    /\ [](pc["sim"] \in {"sampled", "apply"} => ~first_step /\ ~reset_needed)
    /\ [][forwarded' # forwarded => pc["sim"] = "apply" /\ ~first_step /\ ~reset_needed]_vars

C18_Witness ==
    /\ pc["sim"] = "idle"
    /\ first_step
    /\ ~reset_needed
    /\ forwarded # Never
    /\ now = 0

\* C19: every running tick applies exactly what its own get_base_command
\* returned, whatever was applied before: the stored vector inside the window,
\* (0,0,0) once the sampled time is past it, with no write in between.
C19_TickAppliesItsOwnRead ==
    /\ [][(pc["sim"] = "sampled" /\ pc'["sim"] = "apply")
             => cmd' = IF now > command_until_walltime THEN ZeroCmd ELSE base_command]_vars
    /\ [][(pc["sim"] = "apply" /\ pc'["sim"] = "idle") => forwarded' = cmd]_vars
    /\ [][forwarded' # forwarded => pc["sim"] = "apply" /\ pc'["sim"] = "idle"]_vars

C19_Witness ==
    /\ pc["sim"] = "apply"
    /\ cmd = ZeroCmd
    /\ forwarded = <<10, 0, 0>>
    /\ base_command = <<10, 0, 0>>
    /\ lastWrite.handler = "giveMoveCommand"
    /\ lock = "free"
    /\ now > command_until_walltime

----------------------------------------------------------------------------
(* The publishing loop with failing sensors, beside one producer and the    *)
(* advancing clock.                                                         *)

NextPublish ==
    \/ tick /\ UNCHANGED <<pubVars, dirVars, navVars, auxVars>>
    \/ giveMoveCommand("forward", 1, 10, 8) /\ UNCHANGED <<pubVars, dirVars, navVars, auxVars>>
    \/ set_base_command_lock("mcp") /\ UNCHANGED <<pubVars, dirVars, navVars, auxVars>>
    \/ set_base_command_unlock("mcp") /\ UNCHANGED <<pubVars, dirVars, navVars, auxVars>>
    \/ handler_return("mcp") /\ UNCHANGED <<pubVars, dirVars, navVars, auxVars>>
    \/ run_sample /\ UNCHANGED <<dirVars, navVars, auxVars>>
    \/ run_get_base_command /\ UNCHANGED <<dirVars, navVars, auxVars>>
    \/ \E rgba \in Frames \cup {None} : set_camera_rgba_recorded(rgba)
    \/ run_camera_raises /\ UNCHANGED <<dirVars, navVars, auxVars>>
    \/ \E spot \in SpotPoses, camera \in CameraSummaries :
          run_update_state(spot, camera) /\ UNCHANGED <<dirVars, navVars, auxVars>>

InitSpecPublish == InitBridge /\ InitPub /\ InitDirIdle /\ InitAgent /\ InitAux

SpecPublish == InitSpecPublish /\ [][NextPublish]_vars

\* C20: a frame read that fails leaves the stored frame alone and goes on to
\* update_state; update_state is called in every iteration, with the pose or
\* {} and with a camera summary that always has the resolution; then the next
\* world step can follow.
C20_SensorFailureDegradesSnapshot ==
    /\ [][(pc["sim"] = "run_camera" /\ pc'["sim"] # "run_camera")
             => /\ pc'["sim"] = "run_state"
                /\ last_set' = last_set => camera_rgba' = camera_rgba]_vars
    /\ []((pc["sim"] = "run_state" /\ lock = "free")
             => ENABLED (\E spot \in SpotPoses, camera \in CameraSummaries :
                            run_update_state(spot, camera)))
    /\ [][(pc["sim"] = "run_state" /\ pc'["sim"] # "run_state")
             => /\ pc'["sim"] = "idle"
                /\ last_state'.timestamp = clock
                /\ last_state'.spot \in {SpotPose, EmptyDict}
                /\ last_state'.base_command = [vx |-> cmd[1], vy |-> cmd[2],
                                               yaw_rate |-> cmd[3]]
                /\ last_state'.camera.resolution = <<512, 256>>
                /\ camera_rgba' = camera_rgba]_vars
    /\ [](pc["sim"] = "idle" => ENABLED run_sample)

C20_Witness ==
    /\ pc["sim"] = "idle"
    /\ last_state # EmptyDict
    /\ last_state.spot = EmptyDict
    /\ last_state.camera = [resolution |-> <<512, 256>>, has_frame |-> FALSE]
    /\ last_state.base_command.vx = 10
    /\ camera_rgba \in Frames
    /\ last_set = camera_rgba

----------------------------------------------------------------------------
(* The bookkeeping of the navigation loop.                                  *)

\* C21: distance_moved changes only on the successful reply to a "forward"
\* command, where it grows by duration * speed; every other iteration leaves
\* it unchanged and goes back to the loop, so distance_moved never decreases.
C21_DistanceOnlyOnForwardSuccess ==
    /\ [][distance_moved' # distance_moved
             => /\ agent = "await" /\ agent' = "loop"
                /\ decided.movement_command = "forward"
                /\ reply["mcp"].ok
                /\ distance_moved' = distance_moved + decided.duration * decided.speed]_vars
    /\ [][(agent \in {"send", "await"} /\ agent' \notin {"send", "await"})
             => /\ agent' = "loop"
                /\ (decided.movement_command # "forward" \/ agent = "send")
                      => distance_moved' = distance_moved]_vars
    /\ [][distance_moved' >= distance_moved]_vars

\* a forward iteration, then a turn_left iteration that left the distance alone
C21_Witness ==
    /\ agent = "loop"
    /\ step = 2
    /\ distance_moved = 10
    /\ consecutive_stops = 1
    /\ issued = <<"turn_left">>
    /\ lastWrite.vec = <<0, 0, 8>>

----------------------------------------------------------------------------
(* The navigation loop beside the publishing simulation: frames and         *)
(* snapshots change while an iteration runs.                                *)

\* the classifications the vision model gives here
FrameVisionResults ==
    {[status |-> 200, response |-> "FORWARD: clear path"],
     [status |-> 200, response |-> "BLOCKED: wall"],
     [status |-> 500, response |-> ""]}

NextFrames ==
    \/ \E encoded \in BOOLEAN, delivered \in BOOLEAN : capture(encoded, delivered)
    \/ \E raises \in BOOLEAN : getState(raises)
    \/ \E result \in FrameVisionResults : query(result)
    \/ decide
    \/ send_move
    \/ send_move_raises
    \/ set_base_command_lock("mcp") /\ UNCHANGED <<pubVars, dirVars, navVars, auxVars>>
    \/ set_base_command_unlock("mcp") /\ UNCHANGED <<pubVars, dirVars, navVars, auxVars>>
    \/ move_result
    \/ send_stop
    \/ send_stop_raises
    \/ stop_result
    \/ loop_exit
    \/ summary
    \/ run_sample /\ UNCHANGED <<dirVars, navVars, auxVars>>
    \/ run_get_base_command /\ UNCHANGED <<dirVars, navVars, auxVars>>
    \/ \E rgba \in Frames \cup {None} :
          run_set_camera_rgba(rgba) /\ UNCHANGED <<dirVars, navVars, auxVars>>
    \/ run_camera_raises /\ UNCHANGED <<dirVars, navVars, auxVars>>
    \/ \E spot \in SpotPoses :
          run_update_state(spot, [resolution |-> <<512, 256>>])
          /\ UNCHANGED <<dirVars, navVars, auxVars>>

InitSpecFrames == InitBridge /\ InitPub /\ InitDirIdle /\ InitAgent /\ InitAux

SpecFrames == InitSpecFrames /\ [][NextFrames]_vars

\* C22: the frame that is classified is the frame the same iteration acquired
\* with getCameraImage.
C22_ClassifiedFrameIsAcquiredFrame ==
    agent = "decide" => image_base64 = image_data

----------------------------------------------------------------------------

\* C23: an iteration makes at most one command call, a giveMoveCommand or a
\* stop; the server takes a request only for such a call; the vector and the
\* expiry change only while the writer holds the lock, and with the lock free
\* both are those of the last write.
C23_OneAtomicWritePerIteration ==
    /\ [](writes <= 1)
    /\ [][TakesRequest("mcp")
             => /\ agent \in {"send", "stopping"}
                /\ writes' = writes + 1
                /\ local'["mcp"].handler =
                      (IF agent = "send" THEN "giveMoveCommand" ELSE "stop")]_vars
    /\ [][(base_command' # base_command \/ command_until_walltime' # command_until_walltime)
             => (lock = "mcp" \/ lock' = "mcp")]_vars
    /\ []((lock = "free" /\ lastWrite.handler # "none")
             => /\ base_command = lastWrite.vec
                /\ command_until_walltime = lastWrite.t + clamp(lastWrite.duration_s))

\* the second iteration has made its one call, a turn after a forward movement
C23_Witness ==
    /\ agent = "await"
    /\ step = 2
    /\ writes = 1
    /\ pc["mcp"] = "replied"
    /\ lock = "free"
    /\ distance_moved = 20
    /\ base_command = <<0, 0, 8>>
    /\ command_until_walltime = lastWrite.t + 1

----------------------------------------------------------------------------

\* C24: the state read always leads to the classification request, whether it
\* raises, gives an empty snapshot, a snapshot without a pose or one with a
\* pose; it leaves step, consecutive_stops and distance_moved alone, and a
\* classification that answers is followed by a decision.
C24_StateReadNeverBlocks ==
    /\ [][(agent = "state" /\ agent' # "state")
             => /\ agent' = "vision"
                /\ step' = step
                /\ consecutive_stops' = consecutive_stops
                /\ distance_moved' = distance_moved]_vars
    /\ [](agent = "state" => ENABLED getState(TRUE))
    /\ []((agent = "state" /\ lock = "free") => ENABLED getState(FALSE))
    /\ []((agent = "vision" /\ lock = "free" /\ camera_rgba # None)
             => ENABLED (/\ query([status |-> 200, response |-> "FORWARD: clear path"])
                         /\ agent' = "decide"))
    /\ [](agent = "decide" => ENABLED decide)

\* the classification answered after a state read that found no snapshot
C24_Witness ==
    /\ agent = "decide"
    /\ last_state = EmptyDict
    /\ vision_analysis = "FORWARD: clear path"
    /\ step = 1

----------------------------------------------------------------------------
(* The navigation loop with every call returning or failing in the end:     *)
(* navigate_robot is one coroutine that awaits each call, and the server    *)
(* finishes the request it has taken.                                       *)

SpecNavFair == InitSpecNav /\ [][NextNav]_vars /\ WF_vars(NextNav)

\* C25: step never exceeds max_steps, and the loop reaches its end whatever
\* fails on the way.
C25_LoopTerminates ==
    /\ [](step <= max_steps)
    /\ <>(agent = "done")

\* the end reached with every camera call failed
C25_Witness ==
    /\ agent = "done"
    /\ step = max_steps
    /\ camera_rgba = None
    /\ image_data = None
    /\ lastWrite.handler = "none"

----------------------------------------------------------------------------

\* C26: an attempt that fails at the camera or at the classification makes no
\* command call, leaves the bridge, consecutive_stops and distance_moved as
\* they were, and a BLOCKED decision after it counts on from the count before.
C26_FailedAttemptKeepsCounts ==
    /\ [][(agent \in {"loop", "vision"} /\ agent' = "loop")
             => /\ consecutive_stops' = consecutive_stops
                /\ distance_moved' = distance_moved
                /\ writes' = 0
                /\ UNCHANGED <<base_command, command_until_walltime, lastWrite, pc,
                               local, reply>>]_vars
    /\ [][(agent = "decide" /\ failed_in_series /\ vision_analysis \in BlockedAnalyses)
             => consecutive_stops' = consecutive_stops + 1]_vars

\* BLOCKED, a failed attempt, BLOCKED: the third attempt decides the second
\* turn_left
C26_Witness ==
    /\ agent = "send"
    /\ step = 3
    /\ failed_in_series
    /\ consecutive_stops = 2
    /\ issued = <<"turn_left">>
    /\ decided.movement_command = "turn_left"

----------------------------------------------------------------------------
(* Readers and replies against the stored window.                           *)

\* C27: when get_base_command returns a non-zero vector, the clock at that
\* moment is not past the stored expiry.
C27_NonZeroReturnInsideWindow ==
    [][(GetReturns /\ cmd' # ZeroCmd) => clock <= command_until_walltime]_vars

\* C28: the duration_s of an "applied" reply is the window the bridge stored
\* for that request, max(0, length).
C28_ReportedDurationIsStoredWindow ==
    [][\A p \in Producers :
          (pc[p] = "locked" /\ pc'[p] = "replied" /\ reply'[p].kind = "applied")
             => reply'[p].duration_s = command_until_walltime' - local[p].t]_vars

====
